---- MODULE Spec2Model ----
(***************************************************************************)
(* Model of download_xbrl.py: a command-line script that parses a ticker,  *)
(* a filing count (--years) and an output directory (--dir), calls         *)
(* Downloader.get("10-K", TICKER, limit=...) once, prints a summary of the *)
(* filing directories found on disk and exits with 0 or 1.                 *)
(*                                                                         *)
(* Strings the program computes on (the ticker, the raw --years text, file *)
(* and directory names) are sequences of ASCII code points, so that        *)
(* str.upper, int(), sorted() and glob("*.xml") are modelled by what they  *)
(* do.  Opaque strings (the directory path, exception messages, class      *)
(* names) are TLA+ strings.  An optional value is a sequence of length 0   *)
(* or 1.                                                                   *)
(***************************************************************************)
EXTENDS Integers, Sequences, FiniteSets, TLC

VARIABLES
    argv,            \* the command line: [ticker, years, dir], each optional
    pc,              \* position of the single thread of control
    args,            \* argparse namespace: [ticker, years, dir]
    ticker,          \* download_xbrl's parameter ticker
    num_years,       \* download_xbrl's parameter num_years
    download_dir,    \* download_xbrl's parameter download_dir
    dlArgs,          \* arguments the Downloader was constructed with
    getCalls,        \* the dl.get calls made so far, in order
    getOutcome,      \* what dl.get did: [kind, n, cls, msg]
    num_downloaded,  \* the value dl.get returned
    ticker_dir,      \* the path enumerated for the summary (its parts)
    dirState,        \* what the file system held at ticker_dir when checked
    pending,         \* sorted(ticker_dir.iterdir()) still to visit
    lastGlob,        \* the filing directory globbed last, with its contents
    exc,             \* the exception being handled or propagating
    enumRaised,      \* an exception was raised by the summary enumeration
    stdout,          \* lines printed to standard output
    stderr,          \* lines printed to the error stream
    success,         \* download_xbrl's return value
    exitCode,        \* the process exit status
    exitBy           \* who ended the process

vars == <<argv, pc, args, ticker, num_years, download_dir, dlArgs, getCalls,
          getOutcome, num_downloaded, ticker_dir, dirState, pending, lastGlob,
          exc, enumRaised, stdout, stderr, success, exitCode, exitBy>>

---------------------------------------------------------------------------
(* Bounds *)

\* dl.get returns a count in 0..MaxReturned
MaxReturned == 2
\* the ticker directory holds at most MaxEntries entries
MaxEntries == 2

---------------------------------------------------------------------------
(* Sample inputs, as ASCII code points *)

\* "aapl", "Ual", "BRK.b"
Tickers == { <<97, 97, 112, 108>>, <<85, 97, 108>>, <<66, 82, 75, 46, 98>> }

\* raw --years texts: "3", "0", "-1", "12", "abc", "1.5"
RawYears == { <<51>>, <<48>>, <<45, 49>>, <<49, 50>>, <<97, 98, 99>>,
              <<49, 46, 53>> }

\* --dir values
Dirs == { "out" }

\* names an entry of the ticker directory can have: "1", "10", "2"
FilingNames == { <<49>>, <<49, 48>>, <<50>> }

\* ".xml", ".xsd"
DotXml == <<46, 120, 109, 108>>
DotXsd == <<46, 120, 115, 100>>

\* entries a filing directory can hold: a.xml, s.xsd, xml (a file without
\* extension), d.xml (a directory), sub (a directory holding z.xml)
ContentPool ==
    { [name |-> <<97>> \o DotXml,  isDir |-> FALSE, inner |-> {}],
      [name |-> <<115>> \o DotXsd, isDir |-> FALSE, inner |-> {}],
      [name |-> <<120, 109, 108>>, isDir |-> FALSE, inner |-> {}],
      [name |-> <<100>> \o DotXml, isDir |-> TRUE,  inner |-> {}],
      [name |-> <<115, 117, 98>>,  isDir |-> TRUE,
       inner |-> { <<122>> \o DotXml }] }

\* exception classes the external calls can raise, and their messages
\* OSError and its subclasses derive from Exception, as ValueError does;
\* KeyboardInterrupt derives from BaseException only
OSErrorClasses == { "OSError", "PermissionError", "NotADirectoryError",
                    "FileNotFoundError" }
ExceptionClasses == { "ValueError" } \cup OSErrorClasses
BaseOnlyClasses == { "KeyboardInterrupt" }
\* what the Downloader's constructor and its get can raise
RaisedClasses == { "ValueError", "OSError", "KeyboardInterrupt" }
Messages == { "network down", "no such ticker" }

NoOutcome == [kind |-> "none", n |-> 0, cls |-> "", msg |-> ""]
NoExc == [cls |-> "", msg |-> ""]

---------------------------------------------------------------------------
(* Pure functions of the program and of the library calls it makes *)

\* str.upper() on ASCII text: 'a'..'z' map to 'A'..'Z', the rest is kept
UpperChar(c) == IF c >= 97 /\ c <= 122 THEN c - 32 ELSE c

Upper(s) == [i \in 1..Len(s) |-> UpperChar(s[i])]

IsDigit(c) == c >= 48 /\ c <= 57

IsSign(c) == c = 43 \/ c = 45

\* the digits of an int() literal, after an optional sign
Digits(s) == IF Len(s) > 0 /\ IsSign(s[1]) THEN Tail(s) ELSE s

\* int(s) accepts: an optional sign, then one or more decimal digits
IsIntLiteral(s) ==
    /\ Len(Digits(s)) > 0
    /\ \A i \in 1..Len(Digits(s)) : IsDigit(Digits(s)[i])

RECURSIVE DigitsValue(_)
DigitsValue(d) ==
    IF d = <<>> THEN 0
    ELSE 10 * DigitsValue(SubSeq(d, 1, Len(d) - 1)) + (d[Len(d)] - 48)

\* int(s) for a literal s
IntValue(s) ==
    IF Len(s) > 0 /\ s[1] = 45 THEN 0 - DigitsValue(Digits(s))
    ELSE DigitsValue(Digits(s))

\* fnmatch of a name against a pattern in which 42 ('*') matches any run
\* of characters and every other character matches itself
RECURSIVE FnMatch(_, _)
FnMatch(pat, name) ==
    IF pat = <<>> THEN name = <<>>
    ELSE IF Head(pat) = 42
         THEN \/ FnMatch(Tail(pat), name)
              \/ name # <<>> /\ FnMatch(pat, Tail(name))
         ELSE /\ name # <<>>
              /\ Head(name) = Head(pat)
              /\ FnMatch(Tail(pat), Tail(name))

\* Variant: the pattern "*.x*", which also matches the .xsd files.  C6 must
\* tell it from the code.
XStarPattern == <<42, 46, 120, 42>>

\* the pattern "*.xml"
XmlPattern == <<42>> \o DotXml

\* filing_dir.glob(pattern): the entries directly in the directory whose
\* name matches; entries of nested directories are not visited
Glob(contents, pat) == { e \in contents : FnMatch(pat, e.name) }

\* string comparison by code point, as sorted() compares sibling paths
RECURSIVE LexLess(_, _)
LexLess(a, b) ==
    IF b = <<>> THEN FALSE
    ELSE IF a = <<>> THEN TRUE
    ELSE IF Head(a) # Head(b) THEN Head(a) < Head(b)
    ELSE LexLess(Tail(a), Tail(b))

\* sorted(ticker_dir.iterdir()): the entries in ascending order of name
RECURSIVE SortedEntries(_)
SortedEntries(S) ==
    IF S = {} THEN <<>>
    ELSE LET m == CHOOSE x \in S :
                      \A y \in S \ {x} : LexLess(x.name, y.name)
         IN  <<m>> \o SortedEntries(S \ {m})

\* the listings iterdir() can yield: at most MaxEntries entries with
\* distinct names, each a directory or a plain file
Listings ==
    { L \in SUBSET (FilingNames \X {"dir", "file"}) :
        /\ Cardinality(L) <= MaxEntries
        /\ \A x \in L, y \in L : x[1] = y[1] => x = y }

EntriesOf(L) == { [name |-> x[1], kind |-> x[2]] : x \in L }

---------------------------------------------------------------------------
(* Program constants *)

\* parser.add_argument("--years", type=int, default=5)
DefaultYears == 5

\* parser.add_argument("--dir", default="data/xbrl")
DefaultDir == "data/xbrl"

\* the document type requested
FormType == "10-K"

\* the identifying strings the Downloader is constructed with
AppName == "FinancialAnalysisCLI"
Email == "user@example.com"

\* Path(download_dir) / "sec-edgar-filings" / ticker / "10-K"
TickerDirPath(dir, t) == <<[s |-> dir, t |-> <<>>],
                           [s |-> "sec-edgar-filings", t |-> <<>>],
                           [s |-> "", t |-> t],
                           [s |-> FormType, t |-> <<>>]>>

---------------------------------------------------------------------------
(* Output lines *)

Line(kind, text, num) ==
    [kind |-> kind, text |-> text, num |-> num, dir |-> ""]

\* a line that shows the download directory
DirLine(kind, text, dir) ==
    [kind |-> kind, text |-> text, num |-> 0, dir |-> dir]

\* lines 21-24
Banner(t, n, dir) == << Line("downloading", t, 0),
                        Line("number", <<>>, n),
                        DirLine("directory", <<>>, dir),
                        Line("blank", <<>>, 0) >>

\* line 36: "Successfully downloaded {num_downloaded} 10-K filing(s) for {ticker}"
SuccessLine(n, t) == Line("success", t, n)

\* lines 36-41
SuccessReport(n, t, dir) ==
                       << SuccessLine(n, t),
                          DirLine("saved_to", t, dir),
                          Line("each_contains", <<>>, 0),
                          Line("full_submission", <<>>, 0),
                          Line("financial_data", <<>>, 0),
                          Line("html", <<>>, 0) >>

\* line 46: "Downloaded filings:"
ListingHeader == Line("listing_header", <<>>, 0)

\* line 50: "  - {filing_dir.name} ({len(xml_files)} XML files)"
FilingLine(name, xml_files) == Line("filing", name, Cardinality(xml_files))

\* line 55: "Error downloading filings: {e}"
ErrorLine(e) == [kind |-> "error", msg |-> e.msg]

Kinds(out) == { out[i].kind : i \in 1..Len(out) }

---------------------------------------------------------------------------
(* Exceptions *)

\* Variant: a handler written "except ValueError", which lets the other
\* classes through.  C1 must tell it from the code.
CaughtByExceptValueError(cls) == cls = "ValueError"

\* "except Exception" catches the classes derived from Exception;
\* KeyboardInterrupt derives from BaseException only
CaughtByExceptException(cls) == cls \in ExceptionClasses

\* An exception that leaves main() ends the process: the interpreter prints
\* a traceback and exits with status 1, and for KeyboardInterrupt it ends the
\* process by SIGINT, which a shell reports as status 130.
Uncaught(e) ==
    /\ pc' = "exited"
    /\ exc' = e
    /\ stderr' = Append(stderr, [kind |-> "traceback", msg |-> e.msg])
    /\ exitCode' = IF e.cls = "KeyboardInterrupt" THEN <<130>> ELSE <<1>>
    /\ exitBy' = IF e.cls = "KeyboardInterrupt" THEN "sigint" ELSE "traceback"

\* An exception raised inside the try block (lines 31-52): control moves to
\* the handler when the class is caught, and leaves download_xbrl otherwise.
RaiseInTry(e) ==
    IF CaughtByExceptException(e.cls)
    THEN /\ pc' = "except"
         /\ exc' = e
         /\ UNCHANGED <<stderr, exitCode, exitBy>>
    ELSE Uncaught(e)

---------------------------------------------------------------------------
(* The state machine *)

ArgVectors ==
    [ticker : {<<>>} \cup {<<t>> : t \in Tickers},
     years  : {<<>>} \cup {<<y>> : y \in RawYears},
     dir    : {<<>>} \cup {<<d>> : d \in Dirs}]

Init ==
    /\ argv \in ArgVectors
    /\ pc = "start"
    /\ args = [ticker |-> <<>>, years |-> 0, dir |-> ""]
    /\ ticker = <<>>
    /\ num_years = 0
    /\ download_dir = ""
    /\ dlArgs = <<>>
    /\ getCalls = <<>>
    /\ getOutcome = NoOutcome
    /\ num_downloaded = 0
    /\ ticker_dir = <<>>
    /\ dirState = "unchecked"
    /\ pending = <<>>
    /\ lastGlob = <<>>
    /\ exc = NoExc
    /\ enumRaised = FALSE
    /\ stdout = <<>>
    /\ stderr = <<>>
    /\ success = <<>>
    /\ exitCode = <<>>
    /\ exitBy = "none"

\* argparse accepts the command line when the positional ticker is present
\* and the --years text, if given, converts with int()
Accepted(av) ==
    /\ av.ticker # <<>>
    /\ av.years # <<>> => IsIntLiteral(av.years[1])

\* Variant: the --years value is dropped and the default always used.  C8
\* must tell it from the code.
ArgYearsDefaultOnly(av) == DefaultYears

\* args.years: the converted --years value, or the default
ArgYears(av) == IF av.years = <<>> THEN DefaultYears ELSE IntValue(av.years[1])

\* args.dir: the --dir value, or the default
ArgDir(av) == IF av.dir = <<>> THEN DefaultDir ELSE av.dir[1]

\* line 75, parser.parse_args(): on a rejected command line argparse prints
\* its usage message to the error stream and exits with status 2
ParseArgs ==
    /\ pc = "start"
    /\ IF Accepted(argv)
       THEN /\ args' = [ticker |-> argv.ticker[1], years |-> ArgYears(argv),
                        dir |-> ArgDir(argv)]
            /\ pc' = "parsed"
            /\ UNCHANGED <<stderr, exitCode, exitBy>>
       ELSE /\ stderr' = Append(stderr, [kind |-> "usage", msg |-> ""])
            /\ exitCode' = <<2>>
            /\ exitBy' = "argparse"
            /\ pc' = "exited"
            /\ UNCHANGED args
    /\ UNCHANGED <<argv, ticker, num_years, download_dir, dlArgs, getCalls,
                   getOutcome, num_downloaded, ticker_dir, dirState, pending,
                   lastGlob, exc, enumRaised, stdout, success>>

\* Variant: the ticker is passed on as typed.  C7 must tell it from the
\* code.
TickerArgumentAsTyped(a) == a.ticker

\* the first argument of the call on line 77
TickerArgument(a) == Upper(a.ticker)

\* line 77, download_xbrl(args.ticker.upper(), args.years, args.dir), and
\* lines 21-24, the banner
CallDownloadXbrl ==
    /\ pc = "parsed"
    /\ ticker' = TickerArgument(args)
    /\ num_years' = args.years
    /\ download_dir' = args.dir
    /\ stdout' = stdout \o Banner(TickerArgument(args), args.years, args.dir)
    /\ pc' = "entered"
    /\ UNCHANGED <<argv, args, dlArgs, getCalls, getOutcome, num_downloaded,
                   ticker_dir, dirState, pending, lastGlob, exc, enumRaised,
                   stderr, success, exitCode, exitBy>>

\* line 29, Downloader(...): outside the try block, so whatever the
\* constructor raises leaves download_xbrl and main
Construct ==
    /\ pc = "entered"
    /\ dlArgs' = <<[app |-> AppName, email |-> Email, dir |-> download_dir]>>
    /\ \/ /\ pc' = "constructed"
          /\ UNCHANGED <<exc, stderr, exitCode, exitBy>>
       \/ \E cls \in RaisedClasses, m \in Messages :
              Uncaught([cls |-> cls, msg |-> m])
    /\ UNCHANGED <<argv, args, ticker, num_years, download_dir, getCalls,
                   getOutcome, num_downloaded, ticker_dir, dirState, pending,
                   lastGlob, enumRaised, stdout, success>>

\* the call on line 34
GetCall(t, n) == [form |-> FormType, ticker |-> t, limit |-> n]

\* line 34, num_downloaded = dl.get("10-K", ticker, limit=num_years): the
\* library returns a count or raises
CallGet ==
    /\ pc = "constructed"
    /\ getCalls' = Append(getCalls, GetCall(ticker, num_years))
    /\ \/ \E n \in 0..MaxReturned :
            /\ getOutcome' = [kind |-> "returned", n |-> n, cls |-> "",
                              msg |-> ""]
            /\ num_downloaded' = n
            /\ pc' = "got"
            /\ UNCHANGED <<exc, stderr, exitCode, exitBy>>
       \/ \E cls \in RaisedClasses, m \in Messages :
            /\ getOutcome' = [kind |-> "raised", n |-> 0, cls |-> cls,
                              msg |-> m]
            /\ RaiseInTry([cls |-> cls, msg |-> m])
            /\ UNCHANGED num_downloaded
    /\ UNCHANGED <<argv, args, ticker, num_years, download_dir, dlArgs,
                   ticker_dir, dirState, pending, lastGlob, enumRaised,
                   stdout, success>>

\* lines 36-44: the success report, then the path to enumerate
PrintSuccess ==
    /\ pc = "got"
    /\ stdout' = stdout \o SuccessReport(num_downloaded, ticker,
                                     download_dir)
    /\ ticker_dir' = TickerDirPath(download_dir, ticker)
    /\ pc' = "exists"
    /\ UNCHANGED <<argv, args, ticker, num_years, download_dir, dlArgs,
                   getCalls, getOutcome, num_downloaded, dirState, pending,
                   lastGlob, exc, enumRaised, stderr, success, exitCode,
                   exitBy>>

\* what the file system can hold at ticker_dir: nothing, a readable
\* directory, a plain file, a directory that cannot be listed, or a path
\* below a directory that cannot be searched
DirStates == { "absent", "dir", "file", "unreadable", "inaccessible" }

\* Variant: the existence test is missing and the directory is always
\* enumerated.  C5 must tell it from the code.
ExistsUnchecked(fs) == TRUE

\* Path.exists(): stat() succeeds on whatever is there; ENOENT is answered
\* False.  (EACCES, the inaccessible case, is raised by Python up to 3.11
\* and answered False from 3.12 on: CheckExists allows both.)
Exists(fs) == fs \in { "dir", "file", "unreadable" }

\* Variant: the try block ends before the enumeration, whose exceptions
\* then leave download_xbrl.  C10 must tell it from the code.
RaiseAfterTry(e) ==
    /\ enumRaised' = TRUE
    /\ Uncaught(e)

\* An exception raised by the enumeration of lines 45-50: these lines are
\* inside the try block
RaiseInEnum(e) ==
    /\ enumRaised' = TRUE
    /\ RaiseInTry(e)

\* line 45, if ticker_dir.exists():, and line 46, the header
CheckExists ==
    /\ pc = "exists"
    /\ \E fs \in DirStates :
         /\ dirState' = fs
         /\ \/ /\ fs = "inaccessible"
               /\ RaiseInEnum([cls |-> "PermissionError",
                               msg |-> "Permission denied"])
               /\ UNCHANGED stdout
            \/ /\ IF Exists(fs)
                  THEN /\ stdout' = Append(stdout, ListingHeader)
                       /\ pc' = "iterdir"
                  ELSE /\ pc' = "return_true"
                       /\ UNCHANGED stdout
               /\ UNCHANGED <<exc, enumRaised, stderr, exitCode, exitBy>>
    /\ UNCHANGED <<argv, args, ticker, num_years, download_dir, dlArgs,
                   getCalls, getOutcome, num_downloaded, ticker_dir, pending,
                   lastGlob, success>>

\* the OSError iterdir() raises on something that is not a listable directory
IterDirError(fs) ==
    IF fs = "file"
    THEN [cls |-> "NotADirectoryError", msg |-> "Not a directory"]
    ELSE IF fs = "absent"
    THEN [cls |-> "FileNotFoundError", msg |-> "No such file or directory"]
    ELSE [cls |-> "PermissionError", msg |-> "Permission denied"]

\* line 47, sorted(ticker_dir.iterdir())
IterDir ==
    /\ pc = "iterdir"
    /\ IF dirState = "dir"
       THEN \E L \in Listings :
              /\ pending' = SortedEntries(EntriesOf(L))
              /\ pc' = "loop"
              /\ UNCHANGED <<exc, enumRaised, stderr, exitCode, exitBy>>
       ELSE /\ RaiseInEnum(IterDirError(dirState))
            /\ UNCHANGED pending
    /\ UNCHANGED <<argv, args, ticker, num_years, download_dir, dlArgs,
                   getCalls, getOutcome, num_downloaded, ticker_dir, dirState,
                   lastGlob, stdout, success>>

\* line 49, xml_files = list(filing_dir.glob("*.xml"))
XmlFiles(contents) == Glob(contents, XmlPattern)

\* lines 47-50, one iteration of the loop: a directory is globbed and
\* reported, anything else is passed over.  The directory's contents are
\* whatever the file system holds when it is read; a directory that has
\* gone by then makes glob raise.
VisitEntry ==
    /\ pc = "loop"
    /\ pending # <<>>
    /\ pending' = Tail(pending)
    /\ IF Head(pending).kind = "dir"
       THEN \/ \E contents \in SUBSET ContentPool :
                 /\ lastGlob' = <<[name |-> Head(pending).name,
                                   contents |-> contents]>>
                 /\ stdout' = Append(stdout, FilingLine(Head(pending).name,
                                                        XmlFiles(contents)))
                 /\ UNCHANGED <<pc, exc, enumRaised, stderr, exitCode, exitBy>>
            \/ /\ RaiseInEnum([cls |-> "FileNotFoundError",
                               msg |-> "No such file or directory"])
               /\ UNCHANGED <<lastGlob, stdout>>
       ELSE UNCHANGED <<pc, lastGlob, stdout, exc, enumRaised, stderr,
                        exitCode, exitBy>>
    /\ UNCHANGED <<argv, args, ticker, num_years, download_dir, dlArgs,
                   getCalls, getOutcome, num_downloaded, ticker_dir, dirState,
                   success>>

\* line 52, return True: after the loop, or when the directory is absent
ReturnTrue ==
    /\ \/ pc = "loop" /\ pending = <<>>
       \/ pc = "return_true"
    /\ success' = <<TRUE>>
    /\ pc' = "returned"
    /\ UNCHANGED <<argv, args, ticker, num_years, download_dir, dlArgs,
                   getCalls, getOutcome, num_downloaded, ticker_dir, dirState,
                   pending, lastGlob, exc, enumRaised, stdout, stderr,
                   exitCode, exitBy>>

\* Variant: the handler calls dl.get again instead of giving up.  C9 must
\* tell it from the code.
HandlerRetries ==
    /\ pc = "except"
    /\ pc' = "constructed"
    /\ UNCHANGED <<argv, args, ticker, num_years, download_dir, dlArgs,
                   getCalls, getOutcome, num_downloaded, ticker_dir, dirState,
                   pending, lastGlob, exc, enumRaised, stdout, stderr,
                   success, exitCode, exitBy>>

\* lines 54-56, the handler: print the message to the error stream and
\* return False
Handler ==
    /\ pc = "except"
    /\ stderr' = Append(stderr, ErrorLine(exc))
    /\ success' = <<FALSE>>
    /\ pc' = "returned"
    /\ UNCHANGED <<argv, args, ticker, num_years, download_dir, dlArgs,
                   getCalls, getOutcome, num_downloaded, ticker_dir, dirState,
                   pending, lastGlob, exc, enumRaised, stdout, exitCode,
                   exitBy>>

\* Variant: sys.exit(success), which exits with 1 for True and 0 for
\* False.  C3 must tell it from the code.
SysExitWithBool ==
    /\ pc = "returned"
    /\ exitCode' = <<IF success[1] THEN 1 ELSE 0>>
    /\ exitBy' = "sys.exit"
    /\ pc' = "exited"
    /\ UNCHANGED <<argv, args, ticker, num_years, download_dir, dlArgs,
                   getCalls, getOutcome, num_downloaded, ticker_dir, dirState,
                   pending, lastGlob, exc, enumRaised, stdout, stderr,
                   success>>

\* line 78, sys.exit(0 if success else 1)
SysExit ==
    /\ pc = "returned"
    /\ exitCode' = <<IF success[1] THEN 0 ELSE 1>>
    /\ exitBy' = "sys.exit"
    /\ pc' = "exited"
    /\ UNCHANGED <<argv, args, ticker, num_years, download_dir, dlArgs,
                   getCalls, getOutcome, num_downloaded, ticker_dir, dirState,
                   pending, lastGlob, exc, enumRaised, stdout, stderr,
                   success>>

Next ==
    \/ ParseArgs
    \/ CallDownloadXbrl
    \/ Construct
    \/ CallGet
    \/ PrintSuccess
    \/ CheckExists
    \/ IterDir
    \/ VisitEntry
    \/ ReturnTrue
    \/ Handler
    \/ SysExit

Spec == Init /\ [][Next]_vars

---------------------------------------------------------------------------
(* Properties *)

Elems(out) == { out[i] : i \in 1..Len(out) }

SuccessLines == { l \in Elems(stdout) : l.kind = "success" }

\* the summary phase printed something: the header or a per-filing line
ListingPrinted == Kinds(stdout) \cap { "listing_header", "filing" } # {}

GetRaised == getOutcome.kind = "raised"

GetReturned == getOutcome.kind = "returned"

\* what C1 asks of a run whose retrieval call raised
FailureReported ==
    /\ exitBy = "sys.exit"
    /\ success = <<FALSE>>
    /\ exitCode = <<1>>
    /\ stderr = <<[kind |-> "error", msg |-> getOutcome.msg]>>
    /\ SuccessLines = {}
    /\ ~ListingPrinted

\* C1 as stated: whatever exception dl.get raises, download_xbrl returns
\* False without propagating it, its message is on the error stream, no
\* success line and no listing is printed, and the process exits with 1.
C1_AnyExceptionReported ==
    (pc = "exited" /\ GetRaised) => FailureReported

\* C1 (amended): when dl.get raises an exception whose class derives from
\* Exception, download_xbrl returns False without propagating it, its
\* message is on the error stream, no success line and no listing is
\* printed, and the process exits with 1.
C1_ExceptionReported ==
    (pc = "exited" /\ GetRaised /\ getOutcome.cls \in ExceptionClasses)
        => FailureReported

C1_Witness ==
    /\ pc = "exited"
    /\ GetRaised
    /\ getOutcome.cls = "OSError"
    /\ getOutcome.msg = "network down"
    /\ exitCode = <<1>>

\* C2: when dl.get returns N, the one success line printed carries exactly
\* N, and the process exits with 0.
C2_CountPrintedAndExitZero ==
    (pc = "exited" /\ GetReturned)
        => /\ SuccessLines = { Line("success", ticker, getOutcome.n) }
           /\ exitCode = <<0>>

\* C3 as stated: the exit code is 0 on success and 1 on any failure, and
\* no other exit code is produced.
C3_ExitZeroOrOne ==
    pc = "exited"
        => /\ exitCode \in { <<0>>, <<1>> }
           /\ exitCode = <<0>> <=> success = <<TRUE>>

\* "abc" and "1.5", the --years texts that are no integers
NonIntegerYears == { <<97, 98, 99>>, <<49, 46, 53>> }

\* C3 (amended): the process ends in exactly one of these ways: main exits
\* with 0 when download_xbrl returned True and with 1 when it returned
\* False; argparse exits with 2 on a command line without ticker or with a
\* non-integer --years; an exception of a class derived from Exception that
\* the Downloader constructor raises ends it with a traceback and status 1;
\* a KeyboardInterrupt raised by the constructor or by dl.get ends it by
\* SIGINT (status 130).
C3_ExitCodes ==
    pc = "exited"
        => \/ exitBy = "sys.exit" /\ success = <<TRUE>> /\ exitCode = <<0>>
           \/ exitBy = "sys.exit" /\ success = <<FALSE>> /\ exitCode = <<1>>
           \/ /\ exitBy = "argparse"
              /\ exitCode = <<2>>
              /\ \/ argv.ticker = <<>>
                 \/ argv.years # <<>> /\ argv.years[1] \in NonIntegerYears
              /\ dlArgs = <<>>
           \/ /\ exitBy = "traceback"
              /\ exitCode = <<1>>
              /\ exc.cls \in ExceptionClasses
              /\ getCalls = <<>>
           \/ /\ exitBy = "sigint"
              /\ exitCode = <<130>>
              /\ exc.cls = "KeyboardInterrupt"
              /\ success = <<>>

C3_Witness ==
    /\ pc = "exited"
    /\ exitCode = <<2>>
    /\ argv.ticker = <<>>

\* C4: the limit handed to dl.get is an integer >= 1.
C4_LimitPositive ==
    \A i \in 1..Len(getCalls) : getCalls[i].limit >= 1

\* C5: when dl.get returned and the ticker directory does not exist, the
\* summary step raises nothing, prints neither the header nor a per-filing
\* line, download_xbrl returns True and the process exits with 0.
C5_AbsentDirectorySkipped ==
    /\ dirState = "absent"
         => /\ GetReturned
            /\ pc \in { "return_true", "returned", "exited" }
            /\ ~enumRaised
            /\ exc = NoExc
            /\ stderr = <<>>
            /\ ~ListingPrinted
    /\ (dirState = "absent" /\ pc = "exited")
         => /\ success = <<TRUE>>
            /\ exitBy = "sys.exit"
            /\ exitCode = <<0>>

C5_Witness ==
    /\ pc = "exited"
    /\ dirState = "absent"
    /\ getOutcome.n = 0
    /\ exitCode = <<0>>

\* a name ends in ".xml"
EndsInDotXml(name) ==
    /\ Len(name) >= Len(DotXml)
    /\ SubSeq(name, Len(name) - Len(DotXml) + 1, Len(name)) = DotXml

\* C6: the line printed for a filing directory carries the number of
\* entries directly in that directory whose name ends in ".xml": .xsd
\* files, other files and the .xml files of nested directories are not
\* counted.
C6_XmlCountPerDirectory ==
    lastGlob # <<>>
        => /\ stdout[Len(stdout)].kind = "filing"
           /\ stdout[Len(stdout)].text = lastGlob[1].name
           /\ stdout[Len(stdout)].num =
                 Cardinality({ e \in lastGlob[1].contents :
                                   EndsInDotXml(e.name) })

\* a directory holding a.xml, s.xsd, xml, d.xml and sub/z.xml was reported
\* with 2 XML files
C6_Witness ==
    /\ lastGlob # <<>>
    /\ lastGlob[1].contents = ContentPool
    /\ stdout[Len(stdout)].num = 2

\* the uppercase forms of the sample tickers: "AAPL", "UAL", "BRK.B"
UppercaseForm(t) ==
    CASE t = <<97, 97, 112, 108>> -> <<65, 65, 80, 76>>
      [] t = <<85, 97, 108>> -> <<85, 65, 76>>
      [] t = <<66, 82, 75, 46, 98>> -> <<66, 82, 75, 46, 66>>

\* C7: the ticker passed to dl.get is the uppercase form of the ticker
\* given on the command line, and the directory enumerated for the summary
\* is built from that same uppercased ticker.
C7_TickerUppercased ==
    /\ \A i \in 1..Len(getCalls) :
           getCalls[i].ticker = UppercaseForm(argv.ticker[1])
    /\ ticker_dir # <<>>
         => /\ Len(getCalls) = 1
            /\ ticker_dir[3].t = getCalls[1].ticker
            /\ ticker_dir[3].t = UppercaseForm(argv.ticker[1])

\* "aapl" was passed as "AAPL" and its directory enumerated
C7_Witness ==
    /\ argv.ticker = << <<97, 97, 112, 108>> >>
    /\ Len(getCalls) = 1
    /\ getCalls[1].ticker = <<65, 65, 80, 76>>
    /\ ticker_dir # <<>>
    /\ dirState = "dir"

\* the integers the sample --years texts denote: 3, 0, -1, 12
YearsDenoted(y) ==
    CASE y = <<51>> -> 3
      [] y = <<48>> -> 0
      [] y = <<45, 49>> -> 0 - 1
      [] y = <<49, 50>> -> 12

\* C8: without --years exactly 5 filings are requested, without --dir the
\* downloader's root directory is data/xbrl, the document type is 10-K, and
\* a given --years or --dir value is passed through as given.
C8_DefaultsAndPassThrough ==
    /\ \A i \in 1..Len(getCalls) :
         /\ getCalls[i].form = "10-K"
         /\ argv.years = <<>> => getCalls[i].limit = 5
         /\ argv.years # <<>> => getCalls[i].limit = YearsDenoted(argv.years[1])
    /\ \A i \in 1..Len(dlArgs) :
         /\ argv.dir = <<>> => dlArgs[i].dir = "data/xbrl"
         /\ argv.dir # <<>> => dlArgs[i].dir = argv.dir[1]

\* an invocation with only a ticker reached dl.get
C8_Witness ==
    /\ argv.years = <<>>
    /\ argv.dir = <<>>
    /\ Len(getCalls) = 1
    /\ getCalls[1].limit = 5
    /\ dlArgs[1].dir = "data/xbrl"

C10_EnumerationFailureCaught ==
    /\ enumRaised => GetReturned /\ pc \in { "except", "returned", "exited" }
    /\ (enumRaised /\ pc = "exited")
         => /\ exitBy = "sys.exit"
            /\ success = <<FALSE>>
            /\ exitCode = <<1>>
            /\ SuccessLines = { Line("success", ticker, getOutcome.n) }
            /\ stderr = <<[kind |-> "error", msg |-> exc.msg]>>

\* exit code 1 although dl.get returned a count
C10_Witness ==
    /\ pc = "exited"
    /\ enumRaised
    /\ GetReturned
    /\ getOutcome.n = 2
    /\ exitCode = <<1>>

====
